---- MODULE Spec2Model ----
(***************************************************************************)
(* Black-Scholes pricer and parameter sweep of app.py.                     *)
(*                                                                         *)
(* Numbers.  The program computes in IEEE double precision.  The model     *)
(* computes in decimal fixed point with six fractional digits: the real    *)
(* number x is the integer round(x * SCALE).  A double is modelled by a    *)
(* record [k, v, neg]: k is "fin", "inf" or "nan", v the fixed-point value *)
(* of a finite number and neg the sign bit (it tells -0.0 from 0.0 and     *)
(* -inf from inf).  A raised Python exception is a record of the same      *)
(* shape whose k is the exception's name.  Every statement about a price   *)
(* is therefore a statement at the resolution of the fixed-point model.    *)
(***************************************************************************)
EXTENDS Integers, Sequences, FiniteSets, TLC

\* The script's globals K, T, r, sigma, S, call_prices, put_prices and fig;
\* acc is the list a comprehension is building, pc the line the script is
\* at, calls the record of every call of black_scholes made so far with the
\* arguments it got and what it returned or raised.
VARIABLES K, T, r, sigma, S, acc, call_prices, put_prices, fig, pc, calls

\* One unit of the fixed-point representation is 10^-6.
SCALE == 1000 * 1000
HALF == SCALE \div 2

Abs(a) == IF a < 0 THEN -a ELSE a
Sgn(a, b) == IF (a < 0) = (b < 0) THEN 1 ELSE -1

(***************************************************************************)
(* Fixed-point arithmetic on 32-bit integers.                              *)
(***************************************************************************)
\* a * b / SCALE rounded to nearest, a, b >= 0, by base-1000 limbs so that no
\* intermediate product leaves the 32-bit range.
MulU(a, b) ==
  LET a2 == a \div SCALE
      a1 == (a \div 1000) % 1000
      a0 == a % 1000
      b2 == b \div SCALE
      b1 == (b \div 1000) % 1000
      b0 == b % 1000
      low == (a1 * b0 + a0 * b1) * 1000 + a0 * b0 + HALF
  IN  a2 * b2 * SCALE + (a2 * b1 + a1 * b2) * 1000
        + (a2 * b0 + a1 * b1 + a0 * b2) + (low \div SCALE)

Mul(a, b) == Sgn(a, b) * MulU(Abs(a), Abs(b))

RECURSIVE DivDigits(_, _, _, _)
DivDigits(q, rem, b, n) ==
  IF n = 0 THEN q + (IF 2 * rem >= b THEN 1 ELSE 0)
  ELSE DivDigits(q * 10 + ((rem * 10) \div b), (rem * 10) % b, b, n - 1)

\* a * SCALE / b rounded to nearest, a >= 0, b > 0, by long division.
DivU(a, b) == DivDigits(a \div b, a % b, b, 6)

Div(a, b) == Sgn(a, b) * DivU(Abs(a), Abs(b))

RECURSIVE Newton(_, _)
Newton(x, y) ==
  LET next == (y + DivU(x, y)) \div 2
  IN  IF next >= y THEN y ELSE Newton(x, next)

\* Square root of x > 0 by Newton's iteration, which descends from a start
\* above the root until it stops descending.
Sqrt(x) == Newton(x, (x + SCALE) \div 2 + 1)

RECURSIVE AtanhSeries(_, _, _, _)
AtanhSeries(term, z2, k, n) ==
  IF n = 0 THEN 0
  ELSE Sgn(term, 1) * (Abs(term) \div k)
         + AtanhSeries(Mul(term, z2), z2, k + 2, n - 1)

\* Natural logarithm of x > 0: halve or double into [1/2, 2], then
\* ln x = 2 atanh((x - 1) / (x + 1)).
RECURSIVE Ln(_)
Ln(x) ==
  IF x > 2 * SCALE THEN Ln(DivU(x, 2 * SCALE)) + 693147
  ELSE IF x < HALF THEN Ln(x * 2) - 693147
  ELSE LET z == Div(x - SCALE, x + SCALE)
       IN  2 * AtanhSeries(z, Mul(z, z), 1, 9)

RECURSIVE ExpSeries(_, _, _, _)
ExpSeries(term, f, k, n) ==
  IF n = 0 THEN 0
  ELSE term + ExpSeries(Sgn(term, f) * (Abs(Mul(term, f)) \div k), f, k + 1, n - 1)

RECURSIVE ExpScale(_, _)
ExpScale(v, n) ==
  IF n = 0 THEN v
  ELSE IF n > 0 THEN ExpScale(Mul(v, 2718282), n - 1)
  ELSE ExpScale(Mul(v, 367879), n + 1)

\* e^y: y = n + f with n the nearest integer, Taylor series in f, then n
\* factors of e (or of 1/e).  Below e^-20 the result is 0 at this resolution.
Exp(y) ==
  IF y < -20 * SCALE THEN 0
  ELSE LET n == (y + HALF) \div SCALE
       IN  ExpScale(ExpSeries(SCALE, y - n * SCALE, 1, 10), n)

\* Standard normal CDF (Abramowitz and Stegun 26.2.17, absolute error below
\* 7.5e-8), mirrored for negative arguments.
RECURSIVE Phi(_)
Phi(x) ==
  IF x < 0 THEN SCALE - Phi(-x)
  ELSE IF x > 7 * SCALE THEN SCALE
  ELSE LET t == DivU(SCALE, SCALE + MulU(231642, x))
           poly == Mul(t, 319382 + Mul(t, -356564 + Mul(t, 1781478
                     + Mul(t, -1821256 + Mul(t, 1330274)))))
           pdf == Mul(398942, Exp(-(Mul(x, x) \div 2)))
       IN  SCALE - Mul(pdf, poly)

(***************************************************************************)
(* Doubles: finite values, signed zeros, infinities and NaN.               *)
(***************************************************************************)
Fin(v) == [k |-> "fin", v |-> v, neg |-> v < 0]
Zero(neg) == [k |-> "fin", v |-> 0, neg |-> neg]
Inf(neg) == [k |-> "inf", v |-> 0, neg |-> neg]
NaN == [k |-> "nan", v |-> 0, neg |-> FALSE]
Raise(name) == [k |-> name, v |-> 0, neg |-> FALSE]

IsZero(x) == x.k = "fin" /\ x.v = 0
IsNumber(x) == x.k \in {"fin", "inf", "nan"}
IsFinite(x) == x.k = "fin"

FNeg(x) ==
  IF x.k = "nan" THEN NaN
  ELSE [k |-> x.k, v |-> -x.v, neg |-> ~x.neg]

FAdd(x, y) ==
  IF x.k = "nan" \/ y.k = "nan" THEN NaN
  ELSE IF x.k = "inf" /\ y.k = "inf"
       THEN IF x.neg = y.neg THEN x ELSE NaN
  ELSE IF x.k = "inf" THEN x
  ELSE IF y.k = "inf" THEN y
  ELSE IF x.v + y.v # 0 THEN Fin(x.v + y.v)
  ELSE Zero(x.v = 0 /\ x.neg /\ y.neg)

FSub(x, y) == FAdd(x, FNeg(y))

FMul(x, y) ==
  IF x.k = "nan" \/ y.k = "nan" THEN NaN
  ELSE IF x.k = "inf" \/ y.k = "inf"
       THEN IF IsZero(x) \/ IsZero(y) THEN NaN ELSE Inf(x.neg # y.neg)
  ELSE [k |-> "fin", v |-> Mul(x.v, y.v), neg |-> x.neg # y.neg]

\* Division of numpy doubles: a zero divisor gives inf or NaN, never an error.
FDiv(x, y) ==
  IF x.k = "nan" \/ y.k = "nan" THEN NaN
  ELSE IF x.k = "inf"
       THEN IF y.k = "inf" THEN NaN ELSE Inf(x.neg # y.neg)
  ELSE IF y.k = "inf" THEN Zero(x.neg # y.neg)
  ELSE IF y.v = 0
       THEN IF x.v = 0 THEN NaN ELSE Inf(x.neg # y.neg)
  ELSE [k |-> "fin", v |-> Div(x.v, y.v), neg |-> x.neg # y.neg]

\* np.log: log(0) = -inf, log of a negative number is NaN.
FLog(x) ==
  IF x.k = "nan" THEN NaN
  ELSE IF x.k = "inf" THEN IF x.neg THEN NaN ELSE x
  ELSE IF x.v = 0 THEN Inf(TRUE)
  ELSE IF x.v < 0 THEN NaN
  ELSE Fin(Ln(x.v))

\* np.sqrt: the square root of a negative number is NaN.
FSqrt(x) ==
  IF x.k = "nan" THEN NaN
  ELSE IF x.k = "inf" THEN IF x.neg THEN NaN ELSE x
  ELSE IF x.v = 0 THEN x
  ELSE IF x.v < 0 THEN NaN
  ELSE Fin(Sqrt(x.v))

\* np.exp
FExp(x) ==
  IF x.k = "nan" THEN NaN
  ELSE IF x.k = "inf" THEN IF x.neg THEN Zero(FALSE) ELSE x
  ELSE Fin(Exp(x.v))

\* scipy.stats.norm.cdf
FCdf(x) ==
  IF x.k = "nan" THEN NaN
  ELSE IF x.k = "inf" THEN IF x.neg THEN Zero(FALSE) ELSE Fin(SCALE)
  ELSE Fin(Phi(x.v))

(***************************************************************************)
(* black_scholes (app.py, lines 6-13).  S0 is a record [py, v]: py tells a *)
(* Python float from a numpy double (an element of the linspace array),    *)
(* which differ in what division by zero does.  K0, T0, r0, sigma0 are     *)
(* Python scalars, given by their fixed-point values.                      *)
(***************************************************************************)
NpFloat(v) == [py |-> FALSE, v |-> v]
PyFloat(v) == [py |-> TRUE, v |-> v]

OptionTypes == {"call", "put"}

Quotient_inverted(S0, K0) == FDiv(Fin(K0), Fin(S0.v))

\* S / K: Python's float division raises on a zero divisor, numpy's does not.
Quotient(S0, K0) ==
  IF S0.py /\ K0 = 0 THEN Raise("ZeroDivisionError")
  ELSE FDiv(Fin(S0.v), Fin(K0))

d1_minus(S0, K0, T0, r0, sigma0) ==
  FDiv(FAdd(FLog(Quotient(S0, K0)),
            FMul(FSub(Fin(r0), FMul(Fin(HALF), FMul(Fin(sigma0), Fin(sigma0)))),
                 Fin(T0))),
       FMul(Fin(sigma0), FSqrt(Fin(T0))))

\* Line 7.
d1(S0, K0, T0, r0, sigma0) ==
  FDiv(FAdd(FLog(Quotient(S0, K0)),
            FMul(FAdd(Fin(r0), FMul(Fin(HALF), FMul(Fin(sigma0), Fin(sigma0)))),
                 Fin(T0))),
       FMul(Fin(sigma0), FSqrt(Fin(T0))))

\* Line 8.
d2(x1, T0, sigma0) == FSub(x1, FMul(Fin(sigma0), FSqrt(Fin(T0))))

\* K * np.exp(-r * T)
discounted_strike(K0, r0, T0) ==
  FMul(Fin(K0), FExp(FMul(FNeg(Fin(r0)), Fin(T0))))

\* Line 10.
call_price(S0, K0, T0, r0, x1, x2) ==
  FSub(FMul(Fin(S0.v), FCdf(x1)),
       FMul(discounted_strike(K0, r0, T0), FCdf(x2)))

put_price_d1(S0, K0, T0, r0, x1, x2) ==
  FSub(FMul(discounted_strike(K0, r0, T0), FCdf(FNeg(x1))),
       FMul(Fin(S0.v), FCdf(FNeg(x1))))

\* Line 12.
put_price(S0, K0, T0, r0, x1, x2) ==
  FSub(FMul(discounted_strike(K0, r0, T0), FCdf(FNeg(x2))),
       FMul(Fin(S0.v), FCdf(FNeg(x1))))

\* black_scholes with "else:" for "elif option_type == "put":".
black_scholes_else(S0, K0, T0, r0, sigma0, option_type) ==
  IF ~IsNumber(Quotient(S0, K0)) THEN Quotient(S0, K0)
  ELSE LET x1 == d1(S0, K0, T0, r0, sigma0)
           x2 == d2(x1, T0, sigma0)
       IN  IF option_type = "call" THEN call_price(S0, K0, T0, r0, x1, x2)
           ELSE put_price(S0, K0, T0, r0, x1, x2)

\* black_scholes with price a global: an option type that sets no price
\* returns the price the call before it left there.
black_scholes_global_price(S0, K0, T0, r0, sigma0, option_type) ==
  IF ~IsNumber(Quotient(S0, K0)) THEN Quotient(S0, K0)
  ELSE LET x1 == d1(S0, K0, T0, r0, sigma0)
           x2 == d2(x1, T0, sigma0)
       IN  IF option_type = "call" THEN call_price(S0, K0, T0, r0, x1, x2)
           ELSE IF option_type = "put" THEN put_price(S0, K0, T0, r0, x1, x2)
           ELSE IF calls # <<>> /\ IsNumber(calls[Len(calls)].price)
                THEN calls[Len(calls)].price
           ELSE Raise("NameError")

\* Lines 6-13.  With an option type that is neither "call" nor "put" no
\* branch binds price, and "return price" raises UnboundLocalError.
black_scholes(S0, K0, T0, r0, sigma0, option_type) ==
  IF ~IsNumber(Quotient(S0, K0)) THEN Quotient(S0, K0)
  ELSE LET x1 == d1(S0, K0, T0, r0, sigma0)
           x2 == d2(x1, T0, sigma0)
       IN  IF option_type = "call" THEN call_price(S0, K0, T0, r0, x1, x2)
           ELSE IF option_type = "put" THEN put_price(S0, K0, T0, r0, x1, x2)
           ELSE Raise("UnboundLocalError")

(***************************************************************************)
(* The page (app.py, lines 98-118).  Streamlit runs the script top to      *)
(* bottom on load and again whenever a slider is moved.                    *)
(***************************************************************************)
vars == <<K, T, r, sigma, S, acc, call_prices, put_prices, fig, pc, calls>>

\* Sliders, in steps of the slider: K in units of 1, T in tenths of a year,
\* r and sigma in tenths of a percent.
KMin == 50
KMax == 150
KDefault == 100
TMin == 1
TMax == 20
TDefault == 10
rMin == 0
rMax == 100
rDefault == 50
sigmaMin_as_rMin == rMin
sigmaMin == 100
sigmaMax == 500
sigmaDefault == 200

\* The sample points: np.linspace(SStart, SStop, NumSamples).
SStart == 50
SStop == 150
NumSamples == 100

\* How many equal parts of each slider's range the model visits: the stops
\* are the two ends of the range and the points between them, next to the
\* slider's default.
SliderParts == 1

Stops(lo, hi) == {lo + (j * (hi - lo)) \div SliderParts : j \in 0..SliderParts}

\* The values the script reads from the sliders (lines 99-102).
StrikeOf(n) == n * SCALE
MaturityOf(n) == n * (SCALE \div 10)
PercentOf(n) == Div(n * (SCALE \div 10), 100 * SCALE)

\* np.linspace with endpoint=False.
linspace_open(start, stop, num) ==
  LET step == Div((stop - start) * SCALE, num * SCALE)
  IN  [i \in 1..num |-> NpFloat(start * SCALE + (i - 1) * step)]

\* np.linspace: start + i * step, the last point set to stop.
linspace(start, stop, num) ==
  LET step == Div((stop - start) * SCALE, (num - 1) * SCALE)
  IN  [i \in 1..num |->
         NpFloat(IF i = num THEN stop * SCALE ELSE start * SCALE + (i - 1) * step)]

NoFig == [call |-> <<>>, put |-> <<>>, x |-> <<>>, strike |-> 0]

CallRecord(S0, K0, T0, r0, sigma0, option_type) ==
  [S |-> S0, K |-> K0, T |-> T0, r |-> r0, sigma |-> sigma0,
   option_type |-> option_type,
   price |-> black_scholes(S0, K0, T0, r0, sigma0, option_type)]

\* The script from line 104 on, with the slider values just read.
Script(k, t, rate, vol) ==
  /\ K = StrikeOf(k)
  /\ T = MaturityOf(t)
  /\ r = PercentOf(rate)
  /\ sigma = PercentOf(vol)
  /\ S = linspace(SStart, SStop, NumSamples)
  /\ acc = <<>>
  /\ call_prices = <<>>
  /\ put_prices = <<>>
  /\ fig = NoFig
  /\ calls = <<>>
  /\ pc = "call_prices"

Init == Script(KDefault, TDefault, rDefault, sigmaDefault)

\* The comprehension over reversed(S).
Iterate_reversed(option_type) ==
  /\ Len(acc) < Len(S)
  /\ \E c \in {CallRecord(S[Len(S) - Len(acc)], K, T, r, sigma, option_type)} :
       /\ calls' = Append(calls, c)
       /\ IF IsNumber(c.price)
          THEN acc' = Append(acc, c.price) /\ pc' = pc
          ELSE acc' = <<>> /\ pc' = "error"

\* One iteration of a list comprehension [black_scholes(s, K, T, r, sigma,
\* option_type) for s in S]: an exception ends the script, the list is lost.
Iterate(option_type) ==
  /\ Len(acc) < Len(S)
  /\ \E c \in {CallRecord(S[Len(acc) + 1], K, T, r, sigma, option_type)} :
       /\ calls' = Append(calls, c)
       /\ IF IsNumber(c.price)
          THEN acc' = Append(acc, c.price) /\ pc' = pc
          ELSE acc' = <<>> /\ pc' = "error"

\* Line 105.
CallIterate ==
  /\ pc = "call_prices"
  /\ Iterate("call")
  /\ UNCHANGED <<K, T, r, sigma, S, call_prices, put_prices, fig>>

CallAssign ==
  /\ pc = "call_prices"
  /\ Len(acc) = Len(S)
  /\ call_prices' = acc
  /\ acc' = <<>>
  /\ pc' = "put_prices"
  /\ UNCHANGED <<K, T, r, sigma, S, put_prices, fig, calls>>

\* Line 106.
PutIterate ==
  /\ pc = "put_prices"
  /\ Iterate("put")
  /\ UNCHANGED <<K, T, r, sigma, S, call_prices, put_prices, fig>>

PutAssign ==
  /\ pc = "put_prices"
  /\ Len(acc) = Len(S)
  /\ put_prices' = acc
  /\ acc' = <<>>
  /\ pc' = "plot"
  /\ UNCHANGED <<K, T, r, sigma, S, call_prices, fig, calls>>

\* Lines 108-118: the two curves over S and the strike marker go to the chart.
Plot ==
  /\ pc = "plot"
  /\ fig' = [call |-> call_prices, put |-> put_prices, x |-> S, strike |-> K]
  /\ pc' = "done"
  /\ UNCHANGED <<K, T, r, sigma, S, acc, call_prices, put_prices, calls>>

\* A slider is moved: the script runs again from the top with the new value.
Restart ==
  /\ pc \in {"done", "error"}
  /\ S' = linspace(SStart, SStop, NumSamples)
  /\ acc' = <<>>
  /\ call_prices' = <<>>
  /\ put_prices' = <<>>
  /\ fig' = NoFig
  /\ calls' = <<>>
  /\ pc' = "call_prices"

\* Line 99.
MoveK ==
  /\ \E n \in Stops(KMin, KMax) \cup {KDefault} :
       StrikeOf(n) # K /\ K' = StrikeOf(n)
  /\ Restart
  /\ UNCHANGED <<T, r, sigma>>

\* Line 100.
MoveT ==
  /\ \E n \in Stops(TMin, TMax) \cup {TDefault} :
       MaturityOf(n) # T /\ T' = MaturityOf(n)
  /\ Restart
  /\ UNCHANGED <<K, r, sigma>>

\* Line 101.
Mover ==
  /\ \E n \in Stops(rMin, rMax) \cup {rDefault} :
       PercentOf(n) # r /\ r' = PercentOf(n)
  /\ Restart
  /\ UNCHANGED <<K, T, sigma>>

\* Line 102.
Movesigma ==
  /\ \E n \in Stops(sigmaMin, sigmaMax) \cup {sigmaDefault} :
       PercentOf(n) # sigma /\ sigma' = PercentOf(n)
  /\ Restart
  /\ UNCHANGED <<K, T, r>>

Next ==
  \/ CallIterate
  \/ CallAssign
  \/ PutIterate
  \/ PutAssign
  \/ Plot
  \/ MoveK
  \/ MoveT
  \/ Mover
  \/ Movesigma

Spec == Init /\ [][Next]_vars

(***************************************************************************)
(* The two comprehensions and the plot over arbitrary arguments: a domain  *)
(* of up to MaxLen prices, as a numpy array or a list of Python floats,    *)
(* and parameters inside and outside the formula's domain.                 *)
(***************************************************************************)
MaxLen == 2

SValues == {-50 * SCALE, 0, 50 * SCALE, 100 * SCALE, 150 * SCALE}
KValues == {-100 * SCALE, 0, 100 * SCALE, 150 * SCALE}
TValues == {-1 * SCALE, 0, SCALE}
sigmaValues == {-200000, 0, 200000}

Domains ==
  {[i \in DOMAIN f |-> IF py THEN PyFloat(f[i]) ELSE NpFloat(f[i])] :
     f \in UNION {[1..n -> SValues] : n \in 1..MaxLen}, py \in BOOLEAN}

InitFn ==
  /\ K \in KValues
  /\ T \in TValues
  /\ r = PercentOf(rDefault)
  /\ sigma \in sigmaValues
  /\ S \in Domains
  /\ acc = <<>>
  /\ call_prices = <<>>
  /\ put_prices = <<>>
  /\ fig = NoFig
  /\ calls = <<>>
  /\ pc = "call_prices"

NextFn ==
  \/ CallIterate
  \/ CallAssign
  \/ PutIterate
  \/ PutAssign
  \/ Plot

SpecFn == InitFn /\ [][NextFn]_vars

(***************************************************************************)
(* Calls of black_scholes one after another, up to MaxCalls of them, with  *)
(* the default sliders read (lines 99-102) and no sweep run.  The price,   *)
(* the strike and the option type vary from call to call.                  *)
(***************************************************************************)
MaxCalls == 3

TestS == {NpFloat(100 * SCALE), PyFloat(100 * SCALE)}
TestK == {100 * SCALE, 0}
TestTypes == OptionTypes \cup {"straddle"}

InitCalls ==
  /\ K = StrikeOf(KDefault)
  /\ T = MaturityOf(TDefault)
  /\ r = PercentOf(rDefault)
  /\ sigma = PercentOf(sigmaDefault)
  /\ S = <<>>
  /\ acc = <<>>
  /\ call_prices = <<>>
  /\ put_prices = <<>>
  /\ fig = NoFig
  /\ calls = <<>>
  /\ pc = "shell"

\* One call: nothing but the record of calls changes.
Invoke ==
  /\ pc = "shell"
  /\ Len(calls) < MaxCalls
  /\ \E S0 \in TestS, K0 \in TestK, option_type \in TestTypes :
       \E c \in {CallRecord(S0, K0, T, r, sigma, option_type)} :
          calls' = Append(calls, c)
  /\ UNCHANGED <<K, T, r, sigma, S, acc, call_prices, put_prices, fig, pc>>

NextCalls == Invoke

SpecCalls == InitCalls /\ [][NextCalls]_vars

(***************************************************************************)
(* Properties.                                                             *)
(***************************************************************************)
\* Prices agree to 10^-3, the accuracy of the fixed-point pricer.
PriceTol == SCALE \div 1000

Near(a, b, tol) == Abs(a - b) <= tol

ValidParameters == K > 0 /\ T > 0 /\ sigma > 0
PositiveDomain == \A i \in DOMAIN S : S[i].v > 0

IsSweepOf(curve, option_type) ==
  /\ Len(curve) = Len(S)
  /\ \A i \in DOMAIN S :
       curve[i] = black_scholes(S[i], K, T, r, sigma, option_type)

\* C1: each curve a sweep assigns has the domain's length and, at every
\* index i, the price black_scholes computes for the i-th domain value:
\* nothing is skipped, duplicated or reordered; and for a domain of positive
\* prices and valid parameters the sweep ends without an error.
C1_SweepKeepsOrderAndLength ==
  /\ pc \in {"put_prices", "plot", "done"} => IsSweepOf(call_prices, "call")
  /\ pc \in {"plot", "done"} => IsSweepOf(put_prices, "put")
  /\ pc = "done" => fig.call = call_prices /\ fig.put = put_prices /\ fig.x = S
  /\ (ValidParameters /\ PositiveDomain) => pc # "error"

\* A finished sweep over a domain of two different prices in descending order.
C1_Witness ==
  /\ ValidParameters
  /\ PositiveDomain
  /\ pc = "done"
  /\ Len(S) >= 2
  /\ S[1].v > S[2].v
  /\ call_prices[1] # call_prices[2]

\* C2: a call with K <= 0, T <= 0 or sigma <= 0 raises InvalidParameter and
\* returns no number.
C2_InvalidParameterRaised ==
  \A i \in DOMAIN calls :
     (calls[i].K <= 0 \/ calls[i].T <= 0 \/ calls[i].sigma <= 0)
        => calls[i].price.k = "InvalidParameter"

C4_UnknownTypeIsAnError ==
  \A i \in DOMAIN calls :
     calls[i].option_type \notin OptionTypes => ~IsNumber(calls[i].price)

\* A call with the option type "straddle" and valid arguments has been made
\* and has raised UnboundLocalError.
C4_Witness ==
  \E i \in DOMAIN calls :
     /\ calls[i].option_type = "straddle"
     /\ calls[i].K > 0
     /\ calls[i].price.k = "UnboundLocalError"

\* C5: when the domain holds a price S <= 0 (the parameters being valid), no
\* curve is assigned or plotted, whole or in part.
C5_NoCurveFromBadDomain ==
  (ValidParameters /\ ~PositiveDomain) =>
     call_prices = <<>> /\ put_prices = <<>> /\ fig = NoFig

SameArguments(c, d) ==
  /\ c.S = d.S
  /\ c.K = d.K
  /\ c.T = d.T
  /\ c.r = d.r
  /\ c.sigma = d.sigma
  /\ c.option_type = d.option_type

AtTheMoney(c) ==
  /\ c.S.v = 100 * SCALE
  /\ c.K = 100 * SCALE
  /\ c.T = SCALE
  /\ c.r = 50000
  /\ c.sigma = 200000

\* C8: for S = 100, K = 100, T = 1.0, r = 0.05, sigma = 0.20 the call branch
\* returns 10.4506 and the put branch 5.5735, to half a unit of the third
\* decimal.
C8_AtTheMoneyPrices ==
  \A i \in DOMAIN calls :
     AtTheMoney(calls[i]) =>
        /\ calls[i].option_type = "call"
             => IsFinite(calls[i].price)
                /\ Near(calls[i].price.v, 10450600, PriceTol \div 2)
        /\ calls[i].option_type = "put"
             => IsFinite(calls[i].price)
                /\ Near(calls[i].price.v, 5573500, PriceTol \div 2)

\* Both branches have been called at the money.
C8_Witness ==
  /\ \E i \in DOMAIN calls :
        AtTheMoney(calls[i]) /\ calls[i].option_type = "call"
  /\ \E i \in DOMAIN calls :
        AtTheMoney(calls[i]) /\ calls[i].option_type = "put"

IsCallOf(c, i, option_type, curve) ==
  /\ c.S = S[i]
  /\ c.K = K
  /\ c.T = T
  /\ c.r = r
  /\ c.sigma = sigma
  /\ c.option_type = option_type
  /\ c.price = curve[i]

\* C9: an evaluation of the page never calls the pricer more than twice per
\* sample, and when it has plotted it has called it exactly once per sample
\* and option type, calls first and puts second, each with the sliders' K,
\* T, r, sigma, over NumSamples points evenly spaced from SStart to SStop
\* inclusive; the two curves plotted have NumSamples entries each, the i-th
\* of each being the price at the i-th point.
C9_OnceEachOverTheSameDomain ==
  /\ Len(calls) <= 2 * NumSamples
  /\ pc = "done" =>
       /\ Len(fig.x) = NumSamples
       /\ Len(fig.call) = NumSamples
       /\ Len(fig.put) = NumSamples
       /\ fig.x = S
       /\ fig.strike = K
       /\ S[1].v = SStart * SCALE
       /\ S[NumSamples].v = SStop * SCALE
       /\ \A i \in 1..(NumSamples - 1) :
            Near((S[i + 1].v - S[i].v) * (NumSamples - 1),
                 (SStop - SStart) * SCALE, NumSamples)
       /\ Len(calls) = 2 * NumSamples
       /\ \A i \in 1..NumSamples :
            /\ IsCallOf(calls[i], i, "call", fig.call)
            /\ IsCallOf(calls[NumSamples + i], i, "put", fig.put)

\* The page has plotted after a slider was moved away from its default.
C9_Witness ==
  /\ pc = "done"
  /\ K # StrikeOf(KDefault)
  /\ Len(fig.call) = NumSamples

\* C10: every call the page makes has S > 0, K > 0, T > 0, r in [0, 0.10],
\* sigma in [0.10, 0.50] and the option type "call" or "put", and returns a
\* finite price; the script never ends in an error.
C10_PageCallsAreValid ==
  /\ pc # "error"
  /\ \A i \in DOMAIN calls :
        /\ calls[i].S.v > 0
        /\ calls[i].K > 0
        /\ calls[i].T > 0
        /\ calls[i].r >= 0
        /\ calls[i].r <= SCALE \div 10
        /\ calls[i].sigma >= SCALE \div 10
        /\ calls[i].sigma <= SCALE \div 2
        /\ calls[i].option_type \in OptionTypes
        /\ IsFinite(calls[i].price)

\* The page has plotted with every slider at an end of its range: the lowest
\* volatility, maturity and rate and the highest strike.
C10_Witness ==
  /\ pc = "done"
  /\ sigma = PercentOf(sigmaMin)
  /\ T = MaturityOf(TMin)
  /\ r = PercentOf(rMin)
  /\ K = StrikeOf(KMax)

====
